---- MODULE Spec2Model ----
(***************************************************************************)
(* play-loud: the loud.exe daemon.  A UDP listener thread dispatches text  *)
(* commands to the playback controller (audioQueue, playHistory,           *)
(* currentlyPlaying, playingFromQueue); the audio device thread runs       *)
(* Audio::Player::dataCallback, which on end-of-stream calls back into the *)
(* controller (onPlaybackEnd).  Every handler is modelled statement by     *)
(* statement, so that the two threads interleave as they do in the build.  *)
(***************************************************************************)
EXTENDS Integers, Sequences, FiniteSets, TLC

VARIABLES
    audioQueue,        \* std::deque<std::string> audioQueue
    playHistory,       \* std::deque<std::string> playHistory
    currentlyPlaying,  \* std::string currentlyPlaying (<<>> = empty string)
    playingFromQueue,  \* std::atomic<bool> playingFromQueue
    decoder,           \* Player::decoder: <<>> (null) or <<[path, left]>>
    paused,            \* Player::paused
    mutex,             \* Player::mutex: "free" or the thread holding it
    deviceUp,          \* the ma_device is started and not yet uninitialised
    pc,                \* position of each thread
    nextTrack,         \* playNextFromQueue's local, per thread
    msg,               \* the payload handed to the receiver callback
    filePath,          \* the handler's argument (msg.substr(..) or msg)
    dirFiles,          \* handlePlayCommand/handleQueueCommand: tracks to play
    prevTrack,         \* handlePrevCommand's local
    rcvLen,            \* Receiver::loop: the last return value of recvfrom
    errno,             \* the error code the last failed recvfrom left
    fs,                \* the set of paths that exist in the filesystem
    mix,               \* one frame on its way through dataCallback's channel mapping
    render,            \* Audio::Player's volume, callback, playlist and output buffer
    sup,               \* WinMain's thread: the running flags and its position
    scenario,          \* which environment drives the daemon (fixed by Init)
    ncmds,             \* number of payloads dispatched so far
    handler,           \* the handler the current payload was dispatched to
    pre,               \* controller/engine state when the handler was entered
    mark,              \* state before a Prev that nothing has followed yet
    played,            \* every value assigned to currentlyPlaying, in order
    enqueued,          \* every source an Enqueue payload named, in order
    prevUsed,          \* handlePrevCommand has replaced currentlyPlaying
    eot                \* the state when the running onPlaybackEnd began, or <<>>

ctrl   == <<audioQueue, playHistory, currentlyPlaying, playingFromQueue>>
eng    == <<decoder, paused, mutex, deviceUp>>
locals == <<nextTrack, msg, filePath, dirFiles, prevTrack, rcvLen, errno>>
ghost  == <<scenario, ncmds, handler, pre, mark, played, enqueued, prevUsed, eot>>
vars   == <<ctrl, eng, pc, locals, fs, mix, render, sup, ghost>>

(***************************************************************************)
(* Bounds of the model.                                                    *)
(***************************************************************************)
MaxCmds == 3          \* payloads dispatched in one run of SpecSeq
MaxConcCmds == 2      \* payloads dispatched in one run of Spec
MaxEnq == 4           \* Enqueue commands in one run of SpecQueue
MaxNetRecv == 3       \* recvfrom calls in one run of SpecNet
MaxStr == 3           \* length of the payloads SpecDispatch draws
MaxDecCh == 3         \* channels of the decoder in SpecMix
MaxOutCh == 6         \* channels of the device in SpecMix
MaxUnlinks == 2       \* files removed in one run of SpecSkip
MaxShutdownCmds == 2   \* payloads received in one run of SpecShutdown
MaxFrameCount == 2    \* frames the device asks for in one dataCallback of SpecRender
TempBufferSamples == 3 \* samples dataCallback's tempBuffer holds (4096 * 2 in the source)
MaxDevCh == 2         \* channels of the playback device of SpecClamp
MaxPlays == 26        \* tracks played in one run of SpecHistory
MaxAhead == 2         \* tracks SpecHistory keeps queued ahead of playback
TrackFrames == 1      \* PCM frames in every decodable file
FramesPerCall == 1    \* frames the device asks for in one dataCallback

(***************************************************************************)
(* Program constants.                                                      *)
(***************************************************************************)
MAX_HISTORY == 20
FullGain == 100       \* float volume = 1.0f, in percent

(***************************************************************************)
(* Strings are sequences of tokens: one-character strings, except that a   *)
(* file name's extension is one token.                                     *)
(***************************************************************************)
Lst == "listener"
Aud == "audio"
Threads == {Lst, Aud}

EmptyStr == <<>>
CmdNext == <<"n">>
CmdPrev == <<"p">>
CmdQuit == <<"q">>
PlayPrefix == <<"p", "l", "a", "y", ":">>
QueuePrefix == <<"q", ":">>

FileA == <<"a">>
FileB == <<"b">>
DirD == <<"d">>
DirE == <<"e">>
NoFile == <<"z">>
D1 == <<"d", "/", "1", ".mp3">>
D2 == <<"d", "/", "2", ".OGG">>
DX == <<"d", "/", "x", ".txt">>
EX == <<"e", "/", "x", ".txt">>

Dirs == {DirD, DirE}
BaseFs == {FileA, FileB, DirD, DirE, D1, D2, DX, EX}

Letters == <<"a", "b", "c", "d", "e", "f", "g", "h", "i", "j", "k", "l", "m",
             "A", "B", "C", "D", "E", "F", "G", "H", "I", "J", "K", "L", "M",
             "N", "O", "P", "Q">>
Fresh(k) == <<"t", Letters[k]>>
FreshFs == {Fresh(k) : k \in 1..Len(Letters)}

Min(a, b) == IF a < b THEN a ELSE b

StartsWith(s, p) == Len(s) >= Len(p) /\ SubSeq(s, 1, Len(p)) = p
Substr(s, n) == SubSeq(s, n + 1, Len(s))
Perms(S) == {f \in [1..Cardinality(S) -> S] : \A i, j \in 1..Cardinality(S) : f[i] = f[j] => i = j}

(***************************************************************************)
(* std::filesystem, as the handlers use it.                                *)
(***************************************************************************)
exists(p) == p \in fs
is_directory(p) == p \in fs /\ p \in Dirs
Entries(d) == {p \in fs : Len(p) > Len(d) + 1 /\ SubSeq(p, 1, Len(d) + 1) = d \o <<"/">>}
is_regular_file(p) == p \in fs /\ p \notin Dirs

ExtTokens == {".mp3", ".OGG", ".ogg", ".txt", ".wav", ".flac", ".aac", ".wma", ".m4a", ".aiff", ".opus"}
extension(p) == IF p # <<>> /\ p[Len(p)] \in ExtTokens THEN p[Len(p)] ELSE ""
tolower(e) == IF e = ".OGG" THEN ".ogg" ELSE e

collectAudioFiles_any(dirPath) == {p \in Entries(dirPath) : is_regular_file(p)}

collectAudioFiles(dirPath) ==
    {p \in Entries(dirPath) :
        /\ is_regular_file(p)
        /\ tolower(extension(p)) \in {".mp3", ".wav", ".ogg", ".flac", ".aac", ".wma", ".m4a"}}

isAudioFile(p) ==
    tolower(extension(p)) \in {".mp3", ".wav", ".ogg", ".flac", ".aac", ".wma", ".m4a", ".aiff", ".opus"}

\* ma_decoder_init_file succeeds on a file the toolkit can decode.
Decodable(p) == extension(p) # ".txt"

(***************************************************************************)
(* dataCallback's channel mapping of one frame.  Samples are integers;     *)
(* output values are in tenths of a sample unit, so that the factors 0.7,  *)
(* 0.3 and 0.5 and the means of up to eight channels are exact.            *)
(***************************************************************************)
Samples == {-840, 0, 840}
NoMix == [stage |-> "none"]
NoRender == [stage |-> "none"]
NoSup == [pc |-> "none"]

RECURSIVE SumTo(_, _)
SumTo(f, n) == IF n = 0 THEN 0 ELSE f[n - 1] + SumTo(f, n - 1)

MixFrame_swapped(decoderChannels, outputChannels, tempBuffer, cleared) ==
    IF decoderChannels = 1 /\ outputChannels >= 1
    THEN [channel \in 0..(outputChannels - 1) |-> 10 * tempBuffer[0]]
    ELSE IF decoderChannels = 2 /\ outputChannels >= 2
    THEN LET leftSample == tempBuffer[0]
             rightSample == tempBuffer[1]
         IN  [channel \in 0..(outputChannels - 1) |->
                 IF channel = 0 THEN 10 * leftSample
                 ELSE IF channel = 1 THEN 10 * rightSample
                 ELSE IF outputChannels >= 6 /\ channel = 2 THEN 3 * (leftSample + rightSample)
                 ELSE IF outputChannels >= 6 /\ channel = 3 THEN 7 * (leftSample + rightSample)
                 ELSE IF outputChannels >= 6 /\ channel = 4 THEN 5 * leftSample
                 ELSE IF outputChannels >= 6 /\ channel = 5 THEN 5 * rightSample
                 ELSE cleared[channel]]
    ELSE IF decoderChannels >= 2 /\ outputChannels >= 1
    THEN [outChannel \in 0..(outputChannels - 1) |->
             (10 * SumTo(tempBuffer, decoderChannels)) \div decoderChannels]
    ELSE cleared

MixFrame_first(decoderChannels, outputChannels, tempBuffer, cleared) ==
    IF decoderChannels = 1 /\ outputChannels >= 1
    THEN [channel \in 0..(outputChannels - 1) |-> 10 * tempBuffer[0]]
    ELSE IF decoderChannels = 2 /\ outputChannels >= 2
    THEN LET leftSample == tempBuffer[0]
             rightSample == tempBuffer[1]
         IN  [channel \in 0..(outputChannels - 1) |->
                 IF channel = 0 THEN 10 * leftSample
                 ELSE IF channel = 1 THEN 10 * rightSample
                 ELSE IF outputChannels >= 6 /\ channel = 2 THEN 7 * (leftSample + rightSample)
                 ELSE IF outputChannels >= 6 /\ channel = 3 THEN 3 * (leftSample + rightSample)
                 ELSE IF outputChannels >= 6 /\ channel = 4 THEN 5 * leftSample
                 ELSE IF outputChannels >= 6 /\ channel = 5 THEN 5 * rightSample
                 ELSE cleared[channel]]
    ELSE IF decoderChannels >= 2 /\ outputChannels >= 1
    THEN [outChannel \in 0..(outputChannels - 1) |-> 10 * tempBuffer[0]]
    ELSE cleared

\* The body of the loop over frames, applied to the frame tempBuffer on an
\* output frame that memset has cleared.
MixFrame(decoderChannels, outputChannels, tempBuffer, cleared) ==
    IF decoderChannels = 1 /\ outputChannels >= 1
    THEN [channel \in 0..(outputChannels - 1) |-> 10 * tempBuffer[0]]
    ELSE IF decoderChannels = 2 /\ outputChannels >= 2
    THEN LET leftSample == tempBuffer[0]
             rightSample == tempBuffer[1]
         IN  [channel \in 0..(outputChannels - 1) |->
                 IF channel = 0 THEN 10 * leftSample
                 ELSE IF channel = 1 THEN 10 * rightSample
                 ELSE IF outputChannels >= 6 /\ channel = 2 THEN 7 * (leftSample + rightSample)
                 ELSE IF outputChannels >= 6 /\ channel = 3 THEN 3 * (leftSample + rightSample)
                 ELSE IF outputChannels >= 6 /\ channel = 4 THEN 5 * leftSample
                 ELSE IF outputChannels >= 6 /\ channel = 5 THEN 5 * rightSample
                 ELSE cleared[channel]]
    ELSE IF decoderChannels >= 2 /\ outputChannels >= 1
    THEN [outChannel \in 0..(outputChannels - 1) |->
             (10 * SumTo(tempBuffer, decoderChannels)) \div decoderChannels]
    ELSE cleared

(***************************************************************************)
(* Audio::Player, under its mutex.                                         *)
(***************************************************************************)
NoDecoder == <<>>

loadFromFile(path) ==
    IF exists(path) /\ Decodable(path)
    THEN <<[path |-> path, left |-> TrackFrames]>>
    ELSE NoDecoder

stop_nolock_keep == /\ decoder' = decoder
                    /\ paused' = FALSE

stop_nolock == /\ decoder' = NoDecoder
               /\ paused' = FALSE

\* Player::stop(): scoped_lock, stop_nolock
Player_stop == /\ mutex = "free"
               /\ stop_nolock
               /\ UNCHANGED <<mutex, deviceUp>>

\* Player::play(path): scoped_lock, stop_nolock, then a directory's shuffled
\* playlist head or the single file is loaded.
Player_play(path) ==
    /\ mutex = "free"
    /\ IF is_directory(path)
       THEN LET playlist == {p \in Entries(path) : is_regular_file(p) /\ isAudioFile(p)}
            IN  IF playlist # {}
                THEN \E f \in playlist : decoder' = loadFromFile(f) /\ paused' = FALSE
                ELSE decoder' = NoDecoder /\ paused' = TRUE
       ELSE decoder' = loadFromFile(path) /\ paused' = FALSE
    /\ UNCHANGED <<mutex, deviceUp>>

(***************************************************************************)
(* Bookkeeping shared by the steps below.                                  *)
(***************************************************************************)
Goto(t, l) == pc' = [pc EXCEPT ![t] = l]

\* A handler returns to Receiver::loop; onPlaybackEnd returns into
\* dataCallback, which takes the mutex again.
Return(t) == Goto(t, IF t = Lst THEN "ret" ELSE "cb_relock")

Snap == [q |-> audioQueue, h |-> playHistory, c |-> currentlyPlaying,
         m |-> playingFromQueue, d |-> decoder, p |-> paused]

Traced == scenario \in {"queue", "fresh"}
\* The log stops at the first Prev, which replays tracks already logged.
LogPlay(t) == played' = IF Traced /\ ~prevUsed THEN Append(played, t) ELSE played

\* Undefined behaviour (front() or pop_front() of an empty deque) may end
\* the process.
Crash == pc' = [t \in Threads |-> "crashed"]

(***************************************************************************)
(* addToHistory, and the same push inlined in playNextFromQueue.           *)
(***************************************************************************)
addToHistory_nocap(track) ==
    IF track = EmptyStr THEN playHistory ELSE <<track>> \o playHistory

addToHistory_back(track) ==
    IF track = EmptyStr
    THEN playHistory
    ELSE LET h == playHistory \o <<track>>
         IN  IF Len(h) > MAX_HISTORY THEN SubSeq(h, 1, Len(h) - 1) ELSE h

addToHistory(track) ==
    IF track = EmptyStr
    THEN playHistory
    ELSE LET h == <<track>> \o playHistory
         IN  IF Len(h) > MAX_HISTORY THEN SubSeq(h, 1, Len(h) - 1) ELSE h

pushCurrentToHistory ==
    IF currentlyPlaying # EmptyStr
    THEN LET h == <<currentlyPlaying>> \o playHistory
         IN  IF Len(h) > MAX_HISTORY THEN SubSeq(h, 1, Len(h) - 1) ELSE h
    ELSE playHistory

(***************************************************************************)
(* playNextFromQueue, run by the listener thread (Next, Enqueue) and by    *)
(* the audio thread (onPlaybackEnd).                                       *)
(***************************************************************************)
pnfq_check(t) ==
    /\ pc[t] = "pnfq_check"
    /\ IF audioQueue # <<>>
       THEN Goto(t, "pnfq_front") /\ UNCHANGED playingFromQueue
       ELSE playingFromQueue' = FALSE /\ Return(t)
    /\ UNCHANGED <<audioQueue, playHistory, currentlyPlaying, eng, locals, fs, mix, render, sup, ghost>>

\* std::string nextTrack = audioQueue.front();
pnfq_front(t) ==
    /\ pc[t] = "pnfq_front"
    /\ IF audioQueue # <<>>
       THEN nextTrack' = [nextTrack EXCEPT ![t] = Head(audioQueue)] /\ Goto(t, "pnfq_pop")
       ELSE \E v \in {EmptyStr, NoFile, FileA}, crash \in BOOLEAN :
                IF crash
                THEN Crash /\ UNCHANGED nextTrack
                ELSE nextTrack' = [nextTrack EXCEPT ![t] = v] /\ Goto(t, "pnfq_pop")
    /\ UNCHANGED <<ctrl, eng, msg, filePath, dirFiles, prevTrack, rcvLen, errno, fs, mix, render, sup, ghost>>

\* audioQueue.pop_front();
pnfq_pop(t) ==
    /\ pc[t] = "pnfq_pop"
    /\ IF audioQueue # <<>>
       THEN audioQueue' = Tail(audioQueue) /\ Goto(t, "pnfq_exists")
       ELSE \E crash \in BOOLEAN :
                IF crash THEN Crash /\ UNCHANGED audioQueue
                ELSE Goto(t, "pnfq_exists") /\ UNCHANGED audioQueue
    /\ UNCHANGED <<playHistory, currentlyPlaying, playingFromQueue, eng, locals, fs, mix, render, sup, ghost>>

pnfq_exists_giveup(t) ==
    /\ pc[t] = "pnfq_exists"
    /\ IF exists(nextTrack[t])
       THEN Goto(t, "pnfq_hist") /\ UNCHANGED playingFromQueue
       ELSE playingFromQueue' = FALSE /\ Return(t)
    /\ UNCHANGED <<audioQueue, playHistory, currentlyPlaying, eng, locals, fs, mix, render, sup, ghost>>

\* if (fs::exists(path)) ... else retry with the next entry or give up
pnfq_exists(t) ==
    /\ pc[t] = "pnfq_exists"
    /\ IF exists(nextTrack[t])
       THEN Goto(t, "pnfq_hist") /\ UNCHANGED playingFromQueue
       ELSE IF audioQueue # <<>>
            THEN Goto(t, "pnfq_check") /\ UNCHANGED playingFromQueue
            ELSE playingFromQueue' = FALSE /\ Return(t)
    /\ UNCHANGED <<audioQueue, playHistory, currentlyPlaying, eng, locals, fs, mix, render, sup, ghost>>

pnfq_hist_skip(t) ==
    /\ pc[t] = "pnfq_hist"
    /\ Goto(t, "pnfq_setcur")
    /\ UNCHANGED <<ctrl, eng, locals, fs, mix, render, sup, ghost>>

pnfq_hist(t) ==
    /\ pc[t] = "pnfq_hist"
    /\ playHistory' = pushCurrentToHistory
    /\ Goto(t, "pnfq_setcur")
    /\ UNCHANGED <<audioQueue, currentlyPlaying, playingFromQueue, eng, locals, fs, mix, render, sup, ghost>>

pnfq_setcur(t) ==
    /\ pc[t] = "pnfq_setcur"
    /\ currentlyPlaying' = nextTrack[t]
    /\ LogPlay(nextTrack[t])
    /\ Goto(t, "pnfq_play")
    /\ UNCHANGED <<audioQueue, playHistory, playingFromQueue, eng, locals, fs, mix, render, sup,
                   scenario, eot, ncmds, handler, pre, mark, enqueued, prevUsed>>

pnfq_play(t) ==
    /\ pc[t] = "pnfq_play"
    /\ Player_play(nextTrack[t])
    /\ Goto(t, "pnfq_mode")
    /\ UNCHANGED <<ctrl, locals, fs, mix, render, sup, ghost>>

pnfq_mode(t) ==
    /\ pc[t] = "pnfq_mode"
    /\ playingFromQueue' = TRUE
    /\ Return(t)
    /\ UNCHANGED <<audioQueue, playHistory, currentlyPlaying, eng, locals, fs, mix, render, sup, ghost>>

playNextFromQueue(t) ==
    \/ pnfq_check(t)
    \/ pnfq_front(t)
    \/ pnfq_pop(t)
    \/ pnfq_exists(t)
    \/ pnfq_hist(t)
    \/ pnfq_setcur(t)
    \/ pnfq_play(t)
    \/ pnfq_mode(t)

(***************************************************************************)
(* The receiver callback of WinMain: one payload, one handler.             *)
(***************************************************************************)
Dispatch_short(m) ==
    IF m = EmptyStr THEN [h |-> "Stop", arg |-> EmptyStr]
    ELSE IF m = CmdNext THEN [h |-> "Next", arg |-> EmptyStr]
    ELSE IF m = CmdPrev THEN [h |-> "Prev", arg |-> EmptyStr]
    ELSE IF StartsWith(m, CmdQuit) THEN [h |-> "Quit", arg |-> EmptyStr]
    ELSE IF StartsWith(m, PlayPrefix) THEN [h |-> "PlayDirect", arg |-> Substr(m, 5)]
    ELSE IF StartsWith(m, QueuePrefix) THEN [h |-> "Enqueue", arg |-> Substr(m, 2)]
    ELSE [h |-> "LegacyPlay", arg |-> m]

Dispatch(m) ==
    IF m = EmptyStr THEN [h |-> "Stop", arg |-> EmptyStr]
    ELSE IF m = CmdNext THEN [h |-> "Next", arg |-> EmptyStr]
    ELSE IF m = CmdPrev THEN [h |-> "Prev", arg |-> EmptyStr]
    ELSE IF m = CmdQuit THEN [h |-> "Quit", arg |-> EmptyStr]
    ELSE IF StartsWith(m, PlayPrefix) THEN [h |-> "PlayDirect", arg |-> Substr(m, 5)]
    ELSE IF StartsWith(m, QueuePrefix) THEN [h |-> "Enqueue", arg |-> Substr(m, 2)]
    ELSE [h |-> "LegacyPlay", arg |-> m]

Entry(h) ==
    CASE h = "Stop" -> "stop_player"
      [] h = "Next" -> "next_check"
      [] h = "Prev" -> "prev_check"
      [] h = "Quit" -> "quit_stop"
      [] h = "PlayDirect" -> "play_exists"
      [] h = "Enqueue" -> "q_exists"
      [] h = "LegacyPlay" -> "leg_exists"

ReceiverCallback ==
    /\ pc[Lst] = "callback"
    /\ LET d == Dispatch(msg)
       IN  /\ handler' = d.h
           /\ filePath' = d.arg
           /\ Goto(Lst, Entry(d.h))
           /\ mark' = IF d.h = "Prev"
                      THEN IF playHistory # <<>> /\ exists(currentlyPlaying)
                           THEN <<[stage |-> "prev", s |-> Snap]>>
                           ELSE <<>>
                      ELSE IF d.h = "Next" /\ mark # <<>>
                           THEN <<[stage |-> "next", s |-> mark[1].s]>>
                           ELSE <<>>
    /\ pre' = <<Snap>>
    /\ UNCHANGED <<ctrl, eng, nextTrack, msg, dirFiles, prevTrack, rcvLen, errno, fs, mix, render, sup,
                   scenario, eot, ncmds, played, enqueued, prevUsed>>

\* The handler has returned and Receiver::loop goes round.
ListenerReturn ==
    /\ pc[Lst] = "ret"
    /\ Goto(Lst, "loop")
    /\ handler' = "none"
    /\ pre' = <<>>
    /\ rcvLen' = -1
    /\ UNCHANGED errno
    /\ mark' = IF mark # <<>> /\ mark[1].stage = "next" THEN <<>> ELSE mark
    \* the callback's and the handlers' locals end with their scopes
    /\ msg' = EmptyStr
    /\ filePath' = EmptyStr
    /\ dirFiles' = <<>>
    /\ prevTrack' = EmptyStr
    /\ nextTrack' = [nextTrack EXCEPT ![Lst] = EmptyStr]
    /\ UNCHANGED <<ctrl, eng, fs, mix, render, sup, scenario, eot, ncmds, played, enqueued, prevUsed>>

(***************************************************************************)
(* handleStopCommand                                                       *)
(***************************************************************************)
stop_player ==
    /\ pc[Lst] = "stop_player"
    /\ Player_stop
    /\ Goto(Lst, "stop_mode")
    /\ UNCHANGED <<ctrl, locals, fs, mix, render, sup, ghost>>

stop_mode ==
    /\ pc[Lst] = "stop_mode"
    /\ playingFromQueue' = FALSE
    /\ Return(Lst)
    /\ UNCHANGED <<audioQueue, playHistory, currentlyPlaying, eng, locals, fs, mix, render, sup, ghost>>

handleStopCommand == stop_player \/ stop_mode

(***************************************************************************)
(* handleNextCommand                                                       *)
(***************************************************************************)
handleNextCommand_noguard ==
    /\ pc[Lst] = "next_check"
    /\ Goto(Lst, "pnfq_check")
    /\ UNCHANGED <<ctrl, eng, locals, fs, mix, render, sup, ghost>>

handleNextCommand ==
    /\ pc[Lst] = "next_check"
    /\ IF audioQueue = <<>> THEN Return(Lst) ELSE Goto(Lst, "pnfq_check")
    /\ UNCHANGED <<ctrl, eng, locals, fs, mix, render, sup, ghost>>

(***************************************************************************)
(* handlePrevCommand                                                       *)
(***************************************************************************)
prev_check ==
    /\ pc[Lst] = "prev_check"
    /\ IF playHistory = <<>> THEN Return(Lst) ELSE Goto(Lst, "prev_pop")
    /\ UNCHANGED <<ctrl, eng, locals, fs, mix, render, sup, ghost>>

prev_pop ==
    /\ pc[Lst] = "prev_pop"
    /\ prevTrack' = Head(playHistory)
    /\ playHistory' = Tail(playHistory)
    /\ Goto(Lst, "prev_requeue")
    /\ UNCHANGED <<audioQueue, currentlyPlaying, playingFromQueue, eng,
                   nextTrack, msg, filePath, dirFiles, rcvLen, errno, fs, mix, render, sup, ghost>>

prev_requeue_skip ==
    /\ pc[Lst] = "prev_requeue"
    /\ Goto(Lst, "prev_setcur")
    /\ UNCHANGED <<ctrl, eng, locals, fs, mix, render, sup, ghost>>

prev_requeue ==
    /\ pc[Lst] = "prev_requeue"
    /\ audioQueue' = IF currentlyPlaying # EmptyStr
                     THEN <<currentlyPlaying>> \o audioQueue
                     ELSE audioQueue
    /\ Goto(Lst, "prev_setcur")
    /\ UNCHANGED <<playHistory, currentlyPlaying, playingFromQueue, eng, locals, fs, mix, render, sup, ghost>>

prev_setcur ==
    /\ pc[Lst] = "prev_setcur"
    /\ currentlyPlaying' = prevTrack
    /\ prevUsed' = TRUE
    /\ Goto(Lst, "prev_play")
    /\ UNCHANGED <<audioQueue, playHistory, playingFromQueue, eng, locals, fs, mix, render, sup,
                   scenario, eot, ncmds, handler, pre, mark, played, enqueued>>

prev_play ==
    /\ pc[Lst] = "prev_play"
    /\ Player_play(prevTrack)
    /\ Goto(Lst, "prev_mode")
    /\ UNCHANGED <<ctrl, locals, fs, mix, render, sup, ghost>>

prev_mode_keep ==
    /\ pc[Lst] = "prev_mode"
    /\ Return(Lst)
    /\ UNCHANGED <<ctrl, eng, locals, fs, mix, render, sup, ghost>>

prev_mode ==
    /\ pc[Lst] = "prev_mode"
    /\ playingFromQueue' = TRUE
    /\ Return(Lst)
    /\ UNCHANGED <<audioQueue, playHistory, currentlyPlaying, eng, locals, fs, mix, render, sup, ghost>>

handlePrevCommand ==
    \/ prev_check
    \/ prev_pop
    \/ prev_requeue
    \/ prev_setcur
    \/ prev_play
    \/ prev_mode

(***************************************************************************)
(* handleQuitCommand and Player::quit                                      *)
(***************************************************************************)
quit_stop ==
    /\ pc[Lst] = "quit_stop"
    /\ Player_stop
    /\ Goto(Lst, "quit_clearq")
    /\ UNCHANGED <<ctrl, locals, fs, mix, render, sup, ghost>>

quit_clearq ==
    /\ pc[Lst] = "quit_clearq"
    /\ audioQueue' = <<>>
    /\ Goto(Lst, "quit_clearh")
    /\ UNCHANGED <<playHistory, currentlyPlaying, playingFromQueue, eng, locals, fs, mix, render, sup, ghost>>

quit_clearh_keep ==
    /\ pc[Lst] = "quit_clearh"
    /\ Goto(Lst, "quit_clearc")
    /\ UNCHANGED <<ctrl, eng, locals, fs, mix, render, sup, ghost>>

quit_clearh ==
    /\ pc[Lst] = "quit_clearh"
    /\ playHistory' = <<>>
    /\ Goto(Lst, "quit_clearc")
    /\ UNCHANGED <<audioQueue, currentlyPlaying, playingFromQueue, eng, locals, fs, mix, render, sup, ghost>>

quit_clearc ==
    /\ pc[Lst] = "quit_clearc"
    /\ currentlyPlaying' = EmptyStr
    /\ Goto(Lst, "quit_player")
    /\ UNCHANGED <<audioQueue, playHistory, playingFromQueue, eng, locals, fs, mix, render, sup, ghost>>

\* Player::quit(): stop();
quit_player ==
    /\ pc[Lst] = "quit_player"
    /\ Player_stop
    /\ Goto(Lst, "quit_uninit")
    /\ UNCHANGED <<ctrl, locals, fs, mix, render, sup, ghost>>

\* ma_device_uninit(&device): returns once no dataCallback is running, and
\* none runs afterwards.
quit_uninit ==
    /\ pc[Lst] = "quit_uninit"
    /\ pc[Aud] = "idle"
    /\ deviceUp' = FALSE
    /\ Goto(Lst, "quit_exit")
    /\ UNCHANGED <<ctrl, decoder, paused, mutex, locals, fs, mix, render, sup, ghost>>

\* ExitProcess(0)
quit_exit ==
    /\ pc[Lst] = "quit_exit"
    /\ pc' = [t \in Threads |-> "exited"]
    /\ UNCHANGED <<ctrl, eng, locals, fs, mix, render, sup, ghost>>

handleQuitCommand ==
    \/ quit_stop
    \/ quit_clearq
    \/ quit_clearh
    \/ quit_clearc
    \/ quit_player
    \/ quit_uninit
    \/ quit_exit

(***************************************************************************)
(* handlePlayCommand.  dirFiles holds the shuffled directory, or the one   *)
(* file of the single-file branch, whose statements are the same ones.     *)
(***************************************************************************)
play_exists ==
    /\ pc[Lst] = "play_exists"
    /\ IF exists(filePath) THEN Goto(Lst, "play_clear") ELSE Return(Lst)
    /\ UNCHANGED <<ctrl, eng, locals, fs, mix, render, sup, ghost>>

play_clear_keep ==
    /\ pc[Lst] = "play_clear"
    /\ Goto(Lst, "play_collect")
    /\ UNCHANGED <<ctrl, eng, locals, fs, mix, render, sup, ghost>>

play_clear ==
    /\ pc[Lst] = "play_clear"
    /\ audioQueue' = <<>>
    /\ Goto(Lst, "play_collect")
    /\ UNCHANGED <<playHistory, currentlyPlaying, playingFromQueue, eng, locals, fs, mix, render, sup, ghost>>

play_collect ==
    /\ pc[Lst] = "play_collect"
    /\ IF is_directory(filePath)
       THEN LET found == collectAudioFiles(filePath)
            IN  IF found = {}
                THEN Return(Lst) /\ UNCHANGED dirFiles
                ELSE (\E shuffled \in Perms(found) : dirFiles' = shuffled) /\ Goto(Lst, "play_hist")
       ELSE dirFiles' = <<filePath>> /\ Goto(Lst, "play_hist")
    /\ UNCHANGED <<ctrl, eng, nextTrack, msg, filePath, prevTrack, rcvLen, errno, fs, mix, render, sup, ghost>>

play_hist ==
    /\ pc[Lst] = "play_hist"
    /\ playHistory' = addToHistory(currentlyPlaying)
    /\ Goto(Lst, "play_setcur")
    /\ UNCHANGED <<audioQueue, currentlyPlaying, playingFromQueue, eng, locals, fs, mix, render, sup, ghost>>

play_setcur ==
    /\ pc[Lst] = "play_setcur"
    /\ currentlyPlaying' = dirFiles[1]
    /\ LogPlay(dirFiles[1])
    /\ Goto(Lst, "play_play")
    /\ UNCHANGED <<audioQueue, playHistory, playingFromQueue, eng, locals, fs, mix, render, sup,
                   scenario, eot, ncmds, handler, pre, mark, enqueued, prevUsed>>

play_play ==
    /\ pc[Lst] = "play_play"
    /\ Player_play(dirFiles[1])
    /\ Goto(Lst, "play_rest")
    /\ UNCHANGED <<ctrl, locals, fs, mix, render, sup, ghost>>

play_rest_all ==
    /\ pc[Lst] = "play_rest"
    /\ audioQueue' = audioQueue \o dirFiles
    /\ Goto(Lst, "play_mode")
    /\ UNCHANGED <<playHistory, currentlyPlaying, playingFromQueue, eng, locals, fs, mix, render, sup, ghost>>

\* for (i = 1; i < dirFiles.size(); i++) audioQueue.push_back(dirFiles[i]);
play_rest ==
    /\ pc[Lst] = "play_rest"
    /\ audioQueue' = audioQueue \o Tail(dirFiles)
    /\ Goto(Lst, "play_mode")
    /\ UNCHANGED <<playHistory, currentlyPlaying, playingFromQueue, eng, locals, fs, mix, render, sup, ghost>>

play_mode ==
    /\ pc[Lst] = "play_mode"
    /\ playingFromQueue' = TRUE
    /\ Return(Lst)
    /\ UNCHANGED <<audioQueue, playHistory, currentlyPlaying, eng, locals, fs, mix, render, sup, ghost>>

handlePlayCommand ==
    \/ play_exists
    \/ play_clear
    \/ play_collect
    \/ play_hist
    \/ play_setcur
    \/ play_play
    \/ play_rest
    \/ play_mode

(***************************************************************************)
(* handleQueueCommand                                                      *)
(***************************************************************************)
q_exists ==
    /\ pc[Lst] = "q_exists"
    /\ IF exists(filePath) THEN Goto(Lst, "q_collect") ELSE Return(Lst)
    /\ UNCHANGED <<ctrl, eng, locals, fs, mix, render, sup, ghost>>

q_collect ==
    /\ pc[Lst] = "q_collect"
    /\ IF is_directory(filePath)
       THEN LET found == collectAudioFiles(filePath)
            IN  IF found = {}
                THEN Return(Lst) /\ UNCHANGED dirFiles
                ELSE (\E shuffled \in Perms(found) : dirFiles' = shuffled) /\ Goto(Lst, "q_push")
       ELSE dirFiles' = <<filePath>> /\ Goto(Lst, "q_push")
    /\ UNCHANGED <<ctrl, eng, nextTrack, msg, filePath, prevTrack, rcvLen, errno, fs, mix, render, sup, ghost>>

q_push_front ==
    /\ pc[Lst] = "q_push"
    /\ audioQueue' = dirFiles \o audioQueue
    /\ Goto(Lst, "q_start")
    /\ UNCHANGED <<playHistory, currentlyPlaying, playingFromQueue, eng, locals, fs, mix, render, sup, ghost>>

q_push ==
    /\ pc[Lst] = "q_push"
    /\ audioQueue' = audioQueue \o dirFiles
    /\ Goto(Lst, "q_start")
    /\ UNCHANGED <<playHistory, currentlyPlaying, playingFromQueue, eng, locals, fs, mix, render, sup, ghost>>

q_start_nomode ==
    /\ pc[Lst] = "q_start"
    /\ IF currentlyPlaying = EmptyStr THEN Goto(Lst, "pnfq_check") ELSE Return(Lst)
    /\ UNCHANGED <<ctrl, eng, locals, fs, mix, render, sup, ghost>>

q_start ==
    /\ pc[Lst] = "q_start"
    /\ IF currentlyPlaying = EmptyStr
       THEN Goto(Lst, "pnfq_check") /\ UNCHANGED playingFromQueue
       ELSE playingFromQueue' = TRUE /\ Return(Lst)
    /\ UNCHANGED <<audioQueue, playHistory, currentlyPlaying, eng, locals, fs, mix, render, sup, ghost>>

handleQueueCommand ==
    \/ q_exists
    \/ q_collect
    \/ q_push
    \/ q_start

(***************************************************************************)
(* handleLegacyCommand                                                     *)
(***************************************************************************)
leg_exists ==
    /\ pc[Lst] = "leg_exists"
    /\ IF exists(filePath) THEN Goto(Lst, "leg_hist") ELSE Goto(Lst, "leg_play")
    /\ UNCHANGED <<ctrl, eng, locals, fs, mix, render, sup, ghost>>

leg_hist ==
    /\ pc[Lst] = "leg_hist"
    /\ playHistory' = addToHistory(currentlyPlaying)
    /\ Goto(Lst, "leg_setcur")
    /\ UNCHANGED <<audioQueue, currentlyPlaying, playingFromQueue, eng, locals, fs, mix, render, sup, ghost>>

leg_setcur ==
    /\ pc[Lst] = "leg_setcur"
    /\ currentlyPlaying' = filePath
    /\ LogPlay(filePath)
    /\ Goto(Lst, "leg_mode")
    /\ UNCHANGED <<audioQueue, playHistory, playingFromQueue, eng, locals, fs, mix, render, sup,
                   scenario, eot, ncmds, handler, pre, mark, enqueued, prevUsed>>

leg_mode_queue ==
    /\ pc[Lst] = "leg_mode"
    /\ playingFromQueue' = TRUE
    /\ Goto(Lst, "leg_play")
    /\ UNCHANGED <<audioQueue, playHistory, currentlyPlaying, eng, locals, fs, mix, render, sup, ghost>>

leg_mode ==
    /\ pc[Lst] = "leg_mode"
    /\ playingFromQueue' = FALSE
    /\ Goto(Lst, "leg_play")
    /\ UNCHANGED <<audioQueue, playHistory, currentlyPlaying, eng, locals, fs, mix, render, sup, ghost>>

leg_play ==
    /\ pc[Lst] = "leg_play"
    /\ Player_play(filePath)
    /\ Return(Lst)
    /\ UNCHANGED <<ctrl, locals, fs, mix, render, sup, ghost>>

handleLegacyCommand ==
    \/ leg_exists
    \/ leg_hist
    \/ leg_setcur
    \/ leg_mode
    \/ leg_play

(***************************************************************************)
(* Audio::Player::dataCallback on the device thread, and the onPlaybackEnd *)
(* lambda of WinMain it calls with the mutex released.                     *)
(***************************************************************************)
\* std::scoped_lock lock(self->mutex);
dc_lock ==
    /\ pc[Aud] = "idle"
    /\ deviceUp
    /\ mutex = "free"
    /\ mutex' = Aud
    /\ Goto(Aud, "dc_render")
    /\ UNCHANGED <<ctrl, decoder, paused, deviceUp, locals, fs, mix, render, sup, ghost>>

dc_render_hold ==
    /\ pc[Aud] = "dc_render"
    /\ IF decoder = NoDecoder \/ paused
       THEN Goto(Aud, "idle") /\ mutex' = "free" /\ UNCHANGED <<decoder, mark>>
       ELSE LET framesRead == Min(FramesPerCall, decoder[1].left)
            IN  /\ decoder' = <<[decoder[1] EXCEPT !.left = @ - framesRead]>>
                /\ IF framesRead < FramesPerCall
                   THEN Goto(Aud, "cb_check") /\ mark' = <<>> /\ UNCHANGED mutex
                   ELSE Goto(Aud, "idle") /\ mutex' = "free" /\ UNCHANGED mark
    /\ eot' = IF pc'[Aud] = "cb_check" THEN <<[Snap EXCEPT !.d = decoder']>> ELSE eot
    /\ UNCHANGED <<ctrl, paused, deviceUp, locals, fs, mix, render, sup,
                   scenario, ncmds, handler, pre, played, enqueued, prevUsed>>

\* Silence when there is no decoder or the player is paused; otherwise
\* read up to FramesPerCall frames, and on a short read unlock and call
\* the end-of-playback callback.
dc_render ==
    /\ pc[Aud] = "dc_render"
    /\ mutex' = "free"
    /\ IF decoder = NoDecoder \/ paused
       THEN Goto(Aud, "idle") /\ UNCHANGED <<decoder, mark>>
       ELSE LET framesRead == Min(FramesPerCall, decoder[1].left)
            IN  /\ decoder' = <<[decoder[1] EXCEPT !.left = @ - framesRead]>>
                /\ IF framesRead < FramesPerCall
                   THEN Goto(Aud, "cb_check") /\ mark' = <<>>
                   ELSE Goto(Aud, "idle") /\ UNCHANGED mark
    /\ eot' = IF pc'[Aud] = "cb_check" THEN <<[Snap EXCEPT !.d = decoder']>> ELSE eot
    /\ UNCHANGED <<ctrl, paused, deviceUp, locals, fs, mix, render, sup,
                   scenario, ncmds, handler, pre, played, enqueued, prevUsed>>

cb_check_nomode ==
    /\ pc[Aud] = "cb_check"
    /\ IF audioQueue # <<>>
       THEN Goto(Aud, "pnfq_check") /\ UNCHANGED playingFromQueue
       ELSE playingFromQueue' = FALSE /\ Goto(Aud, "cb_relock")
    /\ UNCHANGED <<audioQueue, playHistory, currentlyPlaying, eng, locals, fs, mix, render, sup, ghost>>

\* player.setOnPlaybackEnd([&]() { ... })
cb_check ==
    /\ pc[Aud] = "cb_check"
    /\ IF playingFromQueue /\ audioQueue # <<>>
       THEN Goto(Aud, "pnfq_check") /\ UNCHANGED playingFromQueue
       ELSE playingFromQueue' = FALSE /\ Goto(Aud, "cb_relock")
    /\ UNCHANGED <<audioQueue, playHistory, currentlyPlaying, eng, locals, fs, mix, render, sup, ghost>>

\* self->mutex.lock(); handledByCallback = true;
cb_relock ==
    /\ pc[Aud] = "cb_relock"
    /\ mutex = "free"
    /\ mutex' = Aud
    /\ Goto(Aud, "dc_finish")
    /\ nextTrack' = [nextTrack EXCEPT ![Aud] = EmptyStr]
    /\ UNCHANGED <<ctrl, decoder, paused, deviceUp, msg, filePath, dirFiles,
                   prevTrack, rcvLen, errno, fs, mix, render, sup, ghost>>

\* the remainder is filled with silence and the scoped_lock is released
dc_finish ==
    /\ pc[Aud] = "dc_finish"
    /\ mutex' = "free"
    /\ Goto(Aud, "idle")
    /\ eot' = <<>>
    /\ UNCHANGED <<ctrl, decoder, paused, deviceUp, locals, fs, mix, render, sup,
                   scenario, ncmds, handler, pre, mark, played, enqueued, prevUsed>>

\* dataCallback after it has taken the mutex
dataCallback ==
    \/ dc_render
    \/ cb_check
    \/ playNextFromQueue(Aud)
    \/ cb_relock
    \/ dc_finish

(***************************************************************************)
(* UDP::Receiver::loop                                                     *)
(***************************************************************************)
\* What one recvfrom call can return: a datagram (its length, possibly 0)
\* or -1 with an error code.
NetDatagrams == {EmptyStr, CmdNext, CmdPrev, CmdQuit, FileA,
                 QueuePrefix \o FileA, QueuePrefix \o FileB, PlayPrefix \o DirD}
RecvOutcomes == {[len |-> Len(d), data |-> d, err |-> "none"] : d \in NetDatagrams}
                \cup {[len |-> -1, data |-> EmptyStr, err |-> e] : e \in {"EINTR", "OTHER"}}

loop_recv_retry(r) ==
    /\ pc[Lst] = "loop"
    /\ rcvLen' = r.len
    /\ errno' = IF r.len = -1 THEN r.err ELSE errno
    /\ ncmds' = ncmds + 1
    /\ IF r.len > 0
       THEN msg' = r.data /\ Goto(Lst, "callback")
       ELSE UNCHANGED msg /\ Goto(Lst, "loop")
    /\ UNCHANGED <<ctrl, eng, nextTrack, filePath, dirFiles, prevTrack, fs, mix, render, sup,
                   scenario, eot, handler, pre, mark, played, enqueued, prevUsed>>

loop_recv(r) ==
    /\ pc[Lst] = "loop"
    /\ rcvLen' = r.len
    /\ errno' = IF r.len = -1 THEN r.err ELSE errno
    /\ ncmds' = ncmds + 1
    /\ IF r.len > 0
       THEN msg' = r.data /\ Goto(Lst, "callback")
       ELSE /\ UNCHANGED msg
            /\ IF r.len = -1
               THEN IF r.err = "EINTR" THEN Goto(Lst, "loop") ELSE Goto(Lst, "stopped")
               ELSE Goto(Lst, "loop")
    /\ UNCHANGED <<ctrl, eng, nextTrack, filePath, dirFiles, prevTrack, fs, mix, render, sup,
                   scenario, eot, handler, pre, mark, played, enqueued, prevUsed>>

(***************************************************************************)
(* The receiver callback invoked with payload m (the controller's own      *)
(* boundary: any string, the empty one included).                          *)
(***************************************************************************)
Deliver(m, counted) ==
    /\ pc[Lst] = "loop"
    /\ msg' = m
    /\ ncmds' = IF counted THEN ncmds + 1 ELSE ncmds
    /\ Goto(Lst, "callback")
    /\ UNCHANGED <<ctrl, eng, nextTrack, filePath, dirFiles, prevTrack, rcvLen, errno, fs, mix, render, sup,
                   scenario, eot, handler, pre, mark, played, prevUsed>>

Handlers ==
    \/ ReceiverCallback
    \/ handleStopCommand
    \/ handleNextCommand
    \/ handlePrevCommand
    \/ handleQuitCommand
    \/ handlePlayCommand
    \/ handleQueueCommand
    \/ handleLegacyCommand
    \/ playNextFromQueue(Lst)
    \/ ListenerReturn

(***************************************************************************)
(* Spec: the daemon with both threads free to interleave.                  *)
(***************************************************************************)
Sources == {FileA, FileB, DirD, DirE, NoFile}
Payloads == {EmptyStr, CmdNext, CmdPrev, CmdQuit}
            \cup {PlayPrefix \o src : src \in Sources}
            \cup {QueuePrefix \o src : src \in Sources}
            \cup Sources

InitCommon ==
    /\ audioQueue = <<>>
    /\ playHistory = <<>>
    /\ currentlyPlaying = EmptyStr
    /\ playingFromQueue = FALSE
    /\ decoder = NoDecoder
    /\ paused = FALSE
    /\ mutex = "free"
    /\ deviceUp = TRUE
    /\ nextTrack = [t \in Threads |-> EmptyStr]
    /\ filePath = EmptyStr
    /\ dirFiles = <<>>
    /\ prevTrack = EmptyStr
    /\ rcvLen = -1
    /\ errno = "none"
    /\ ncmds = 0
    /\ handler = "none"
    /\ pre = <<>>
    /\ mark = <<>>
    /\ played = <<>>
    /\ enqueued = <<>>
    /\ prevUsed = FALSE
    /\ eot = <<>>

\* Both threads wait: the listener in recvfrom, the device between callbacks.
InitIdle ==
    /\ InitCommon
    /\ mix = NoMix
    /\ render = NoRender
    /\ sup = NoSup
    /\ pc = [t \in Threads |-> IF t = Lst THEN "loop" ELSE "idle"]
    /\ msg = EmptyStr

Init == InitIdle /\ scenario = "free" /\ fs = BaseFs

ConcPayloads == {EmptyStr, CmdNext, CmdPrev, CmdQuit, FileB,
                 PlayPrefix \o DirD, QueuePrefix \o FileA}

ConcCommand == \E m \in ConcPayloads : ncmds < MaxConcCmds /\ Deliver(m, TRUE) /\ UNCHANGED enqueued

Next == ConcCommand \/ Handlers \/ dc_lock \/ dataCallback

Spec == Init /\ [][Next]_vars

(***************************************************************************)
(* SpecSeq: the same daemon when a command handler and a dataCallback      *)
(* never overlap (each transition runs to completion).                     *)
(***************************************************************************)
Command == \E m \in Payloads : ncmds < MaxCmds /\ Deliver(m, TRUE) /\ UNCHANGED enqueued

NextSeq ==
    \/ pc[Aud] = "idle" /\ Command
    \/ Handlers
    \/ pc[Lst] = "loop" /\ dc_lock
    \/ dataCallback

SpecSeq == Init /\ [][NextSeq]_vars

(***************************************************************************)
(* SpecQueue: from idle, Enqueue commands of existing single files, then   *)
(* as many Next commands; the device renders but no track ends.            *)
(***************************************************************************)
QueueTracks == {FileA, FileB, D1}

InitQueue == InitIdle /\ scenario = "queue" /\ fs = BaseFs

EnqueueCmd ==
    \E t \in QueueTracks :
        /\ pc[Aud] = "idle"
        /\ ncmds = Len(enqueued)
        /\ Len(enqueued) < MaxEnq
        /\ Deliver(QueuePrefix \o t, TRUE)
        /\ enqueued' = Append(enqueued, t)

NextCmd ==
    /\ pc[Aud] = "idle"
    /\ Len(enqueued) >= 1
    /\ ncmds < 2 * Len(enqueued)
    /\ Deliver(CmdNext, TRUE)
    /\ UNCHANGED enqueued

NextQueue ==
    \/ EnqueueCmd
    \/ NextCmd
    \/ ReceiverCallback
    \/ handleQueueCommand
    \/ handleNextCommand
    \/ playNextFromQueue(Lst)
    \/ ListenerReturn
    \/ pc[Lst] = "loop" /\ dc_lock
    \/ dc_render /\ pc'[Aud] = "idle"

SpecQueue == InitQueue /\ [][NextQueue]_vars

(***************************************************************************)
(* SpecHistory: a client that names a fresh file in every command with a   *)
(* source, plays directly only when nothing is queued and keeps at most    *)
(* MaxAhead tracks queued; Stop, Next and Prev at any time; tracks end.    *)
(***************************************************************************)
InitHistory == InitIdle /\ scenario = "fresh" /\ fs = FreshFs

FreshCmd ==
    \E kind \in {"play", "queue", "legacy"} :
        /\ pc[Aud] = "idle"
        /\ ncmds < MaxPlays
        /\ ncmds < Len(Letters)
        /\ IF kind = "queue" THEN Len(audioQueue) < MaxAhead ELSE audioQueue = <<>>
        /\ LET src == Fresh(ncmds + 1)
           IN  Deliver(CASE kind = "play" -> PlayPrefix \o src
                         [] kind = "queue" -> QueuePrefix \o src
                         [] kind = "legacy" -> src, TRUE)
        /\ UNCHANGED enqueued

ControlCmd ==
    \E m \in {EmptyStr, CmdNext, CmdPrev} :
        /\ pc[Aud] = "idle"
        /\ Deliver(m, FALSE)
        /\ UNCHANGED enqueued

NextHistory ==
    \/ FreshCmd
    \/ ControlCmd
    \/ ReceiverCallback
    \/ handleStopCommand
    \/ handleNextCommand
    \/ handlePrevCommand
    \/ handlePlayCommand
    \/ handleQueueCommand
    \/ handleLegacyCommand
    \/ playNextFromQueue(Lst)
    \/ ListenerReturn
    \/ pc[Lst] = "loop" /\ dc_lock
    \/ dataCallback

SpecHistory == InitHistory /\ [][NextHistory]_vars

(***************************************************************************)
(* SpecDispatch: the receiver callback applied to one payload drawn from   *)
(* the strings over a small alphabet.                                      *)
(***************************************************************************)
Alphabet == {"n", "p", "q", ":", "a"}
Strs(n) == UNION {[1..k -> Alphabet] : k \in 0..n}
DispatchPayloads ==
    Strs(MaxStr)
    \cup {PlayPrefix \o s : s \in Strs(1)}
    \cup {SubSeq(PlayPrefix, 1, k) : k \in 1..4}
    \cup {PlayPrefix \o DirD, QueuePrefix \o DirD, DirD, <<"p", "l", "a", "y", "a">>}

InitDispatch ==
    /\ InitCommon
    /\ scenario = "dispatch"
    /\ mix = NoMix
    /\ render = NoRender
    /\ sup = NoSup
    /\ fs = BaseFs
    /\ pc = [t \in Threads |-> IF t = Lst THEN "callback" ELSE "idle"]
    /\ msg \in DispatchPayloads

NextDispatch == ReceiverCallback

SpecDispatch == InitDispatch /\ [][NextDispatch]_vars

(***************************************************************************)
(* SpecNet: the daemon fed by recvfrom.  handleStopCommand is not among    *)
(* the steps: no outcome of recvfrom leads to it.                          *)
(***************************************************************************)
InitNet == InitIdle /\ scenario = "net" /\ fs = BaseFs

Recv ==
    \E r \in RecvOutcomes :
        /\ pc[Aud] = "idle"
        /\ ncmds < MaxNetRecv
        /\ loop_recv(r)

NextNet ==
    \/ Recv
    \/ ReceiverCallback
    \/ handleNextCommand
    \/ handlePrevCommand
    \/ handleQuitCommand
    \/ handlePlayCommand
    \/ handleQueueCommand
    \/ handleLegacyCommand
    \/ playNextFromQueue(Lst)
    \/ ListenerReturn
    \/ pc[Lst] \in {"loop", "stopped"} /\ dc_lock
    \/ dataCallback

SpecNet == InitNet /\ [][NextNet]_vars

(***************************************************************************)
(* Properties.                                                             *)
(***************************************************************************)
AtRest == pc[Lst] = "loop" /\ pc[Aud] = "idle"
Returned(h) == pc[Lst] = "ret" /\ handler = h

\* C1 (SpecQueue): after Enqueue of existing files T1..Tn from idle and then
\* n Next commands with no end of track in between, the tracks have become
\* CurrentTrack in exactly the order T1..Tn, Tn is current and the Queue is
\* empty.
C1_QueueOrder ==
    (AtRest /\ Len(enqueued) >= 1 /\ ncmds = 2 * Len(enqueued))
        => /\ played = enqueued
           /\ currentlyPlaying = enqueued[Len(enqueued)]
           /\ audioQueue = <<>>

C1_Witness ==
    /\ AtRest
    /\ enqueued = <<FileB, FileA, D1>>
    /\ ncmds = 6
    /\ played = enqueued
    /\ audioQueue = <<>>

\* C2 (SpecHistory): History never holds more than 20 entries.
C2_HistoryBounded == Len(playHistory) <= MAX_HISTORY

C2_Witness ==
    /\ Len(playHistory) = MAX_HISTORY
    /\ Len(played) >= MAX_HISTORY + 2
    /\ ~prevUsed

\* C3 (SpecHistory): after k plays in a row without Prev, History is the
\* min(20, k-1) most recently replaced tracks, the most recent first; 25
\* plays leave exactly 20 entries.
C3_HistoryIsRecentPlays ==
    (AtRest /\ ~prevUsed)
        => LET k == Len(played)
               n == IF k = 0 THEN 0 ELSE Min(MAX_HISTORY, k - 1)
           IN  /\ Len(playHistory) = n
               /\ \A i \in 1..n : playHistory[i] = played[k - i]
               /\ k = 25 => Len(playHistory) = 20

C3_Witness ==
    /\ AtRest
    /\ ~prevUsed
    /\ Len(played) = 25
    /\ Len(playHistory) = 20
    /\ playHistory[1] = played[24]
    /\ playHistory[20] = played[5]

C5_NextOnEmptyQueue ==
    (Returned("Next") /\ pre[1].q = <<>>) => Snap = pre[1]

C5_Witness ==
    /\ Returned("Next")
    /\ pre[1].q = <<>>
    /\ pre[1].m
    /\ pre[1].d # NoDecoder
    /\ pre[1].h # <<>>

\* C6 (SpecSeq): Enqueue of an existing directory without any recognized
\* audio file changes nothing: Queue, CurrentTrack, PlaybackMode, History
\* and the decoding session stay as they were.
C6_EnqueueEmptyDirectory ==
    (Returned("Enqueue") /\ filePath = DirE) => Snap = pre[1]

C6_Witness ==
    /\ Returned("Enqueue")
    /\ filePath = DirE
    /\ Entries(DirE) # {}
    /\ pre[1].c # EmptyStr
    /\ pre[1].q # <<>>

\* C7 (Spec): when handleQuitCommand asks for the device to be torn down
\* and for the process to exit, the player is stopped and Queue, History
\* and CurrentTrack are empty, whatever the render callback is doing.
C7_QuitLeavesEmpty ==
    pc[Lst] \in {"quit_uninit", "quit_exit", "exited"}
        => /\ decoder = NoDecoder
           /\ audioQueue = <<>>
           /\ playHistory = <<>>
           /\ currentlyPlaying = EmptyStr

\* C8 (SpecDispatch): every payload goes to exactly one handler: empty to
\* Stop; exactly n, p, q to Next, Prev, Quit; play:REST to PlayDirect(REST);
\* q:REST to Enqueue(REST); anything else to LegacyPlay(whole payload).
C8_DispatchGrammar ==
    pc[Lst] # "callback"
        => LET isPlay == Len(msg) >= 5 /\ SubSeq(msg, 1, 5) = <<"p", "l", "a", "y", ":">>
               isQueue == Len(msg) >= 2 /\ SubSeq(msg, 1, 2) = <<"q", ":">>
               bare == msg \in {<<>>, <<"n">>, <<"p">>, <<"q">>}
           IN  /\ msg = <<>> => pc[Lst] = "stop_player" /\ handler = "Stop"
               /\ msg = <<"n">> => pc[Lst] = "next_check" /\ handler = "Next"
               /\ msg = <<"p">> => pc[Lst] = "prev_check" /\ handler = "Prev"
               /\ msg = <<"q">> => pc[Lst] = "quit_stop" /\ handler = "Quit"
               /\ isPlay => /\ pc[Lst] = "play_exists" /\ handler = "PlayDirect"
                            /\ filePath = SubSeq(msg, 6, Len(msg))
               /\ isQueue => /\ pc[Lst] = "q_exists" /\ handler = "Enqueue"
                             /\ filePath = SubSeq(msg, 3, Len(msg))
               /\ (~bare /\ ~isPlay /\ ~isQueue)
                      => /\ pc[Lst] = "leg_exists" /\ handler = "LegacyPlay"
                         /\ filePath = msg

C8_Witness ==
    /\ msg = <<"q", ":", "q">>
    /\ pc[Lst] = "q_exists"
    /\ handler = "Enqueue"
    /\ filePath = <<"q">>

\* C9 (SpecNet): a datagram of length zero taken from the socket is handed
\* to the receiver callback and handled as Stop.
C9_EmptyDatagramStops ==
    rcvLen = 0 => \/ pc[Lst] = "callback"
                  \/ handler = "Stop"

\* C10 (SpecSeq): after Stop, from any state, no decoding session is
\* active, PlaybackMode is false, and Queue and History are as before.
C10_StopEffect ==
    Returned("Stop")
        => /\ decoder = NoDecoder
           /\ ~playingFromQueue
           /\ audioQueue = pre[1].q
           /\ playHistory = pre[1].h

C10_Witness ==
    /\ Returned("Stop")
    /\ pre[1].d # NoDecoder
    /\ pre[1].m
    /\ pre[1].q # <<>>
    /\ pre[1].h # <<>>
    /\ decoder = NoDecoder

\* What the player holds after play(t): a fresh decoder on t, or for a
\* directory on one of its entries, or none if no entry can be decoded.
Loads(t) ==
    IF t \in Dirs
    THEN \/ \E f \in Entries(t) : decoder = <<[path |-> f, left |-> TrackFrames]>>
         \/ decoder = NoDecoder /\ \A f \in Entries(t) : f[Len(f)] = ".txt"
    ELSE decoder = <<[path |-> t, left |-> TrackFrames]>>

\* History h after track c has been replaced as the current one.
Pushed(c, h) ==
    IF c = EmptyStr THEN h ELSE SubSeq(<<c>> \o h, 1, Min(MAX_HISTORY, Len(h) + 1))

\* C11 (SpecSeq): Prev with History non-empty pops its front, puts the old
\* CurrentTrack (if set) at the Queue's front before CurrentTrack is
\* replaced, makes the popped entry current, loads it and sets
\* PlaybackMode; Prev with History empty changes nothing.
C11_PrevEffect ==
    /\ Returned("Prev")
        => IF pre[1].h = <<>>
           THEN Snap = pre[1]
           ELSE /\ playHistory = Tail(pre[1].h)
                /\ audioQueue = IF pre[1].c # EmptyStr
                                THEN <<pre[1].c>> \o pre[1].q
                                ELSE pre[1].q
                /\ currentlyPlaying = Head(pre[1].h)
                /\ Loads(Head(pre[1].h))
                /\ playingFromQueue
    /\ (handler = "Prev" /\ pc[Lst] = "prev_setcur")
        => /\ currentlyPlaying = pre[1].c
           /\ pre[1].c # EmptyStr => audioQueue = <<pre[1].c>> \o pre[1].q

C11_Witness ==
    /\ Returned("Prev")
    /\ pre[1].h # <<>>
    /\ pre[1].q # <<>>
    /\ pre[1].c # EmptyStr
    /\ Head(audioQueue) = pre[1].c
    /\ currentlyPlaying = Head(pre[1].h)

\* C12 (SpecSeq): PlayDirect of an existing file empties the Queue, pushes
\* the old CurrentTrack to History, makes the file current and sets
\* PlaybackMode; of a directory with recognized audio files, CurrentTrack
\* followed by the Queue is a permutation of those files.
C12_PlayDirectEffect ==
    (Returned("PlayDirect") /\ filePath \in fs /\ filePath # DirE)
        => /\ playHistory = Pushed(pre[1].c, pre[1].h)
           /\ playingFromQueue
           /\ IF filePath = DirD
              THEN LET perm == <<currentlyPlaying>> \o audioQueue
                   IN  /\ Len(perm) = 2
                       /\ {perm[i] : i \in 1..2} = {D1, D2}
              ELSE /\ audioQueue = <<>>
                   /\ currentlyPlaying = filePath

C12_Witness ==
    /\ Returned("PlayDirect")
    /\ filePath = DirD
    /\ pre[1].q # <<>>
    /\ pre[1].c # EmptyStr
    /\ currentlyPlaying = D2
    /\ audioQueue = <<D1>>

\* C13 (SpecSeq): Enqueue of an existing source appends its track, or the
\* directory's recognized audio files in some order, behind every earlier
\* entry; with no CurrentTrack it then advances as Next does, otherwise
\* CurrentTrack, History and the decoder stay and PlaybackMode is set.
C13_EnqueueEffect ==
    (Returned("Enqueue") /\ filePath \in fs /\ filePath # DirE)
        => LET added == IF filePath = DirD THEN {D1, D2} ELSE {filePath}
               all == IF pre[1].c = EmptyStr
                      THEN <<currentlyPlaying>> \o audioQueue
                      ELSE audioQueue
               n == Len(pre[1].q)
           IN  /\ Len(all) = n + Cardinality(added)
               /\ SubSeq(all, 1, n) = pre[1].q
               /\ {all[i] : i \in (n + 1)..Len(all)} = added
               /\ playingFromQueue
               /\ playHistory = pre[1].h
               /\ IF pre[1].c = EmptyStr
                  THEN Loads(currentlyPlaying)
                  ELSE currentlyPlaying = pre[1].c /\ decoder = pre[1].d

C13_Witness ==
    /\ Returned("Enqueue")
    /\ filePath = DirD
    /\ pre[1].c # EmptyStr
    /\ pre[1].q # <<>>
    /\ decoder # NoDecoder
    /\ Len(audioQueue) = Len(pre[1].q) + 2

\* onPlaybackEnd has returned into dataCallback.
Notified == pc[Aud] = "cb_relock" /\ eot # <<>>

\* C14 (SpecSeq): LegacyPlay of an existing source pushes the old
\* CurrentTrack to History, makes the source current, loads it, clears
\* PlaybackMode and leaves the Queue alone; while PlaybackMode stays false
\* the end of the track takes nothing from the Queue.
C14_LegacyPlayEffect ==
    /\ (Returned("LegacyPlay") /\ filePath \in fs)
        => /\ playHistory = Pushed(pre[1].c, pre[1].h)
           /\ currentlyPlaying = filePath
           /\ Loads(filePath)
           /\ ~playingFromQueue
           /\ audioQueue = pre[1].q
    /\ (Notified /\ ~eot[1].m)
        => /\ audioQueue = eot[1].q
           /\ currentlyPlaying = eot[1].c
           /\ ~playingFromQueue

C14_Witness ==
    /\ Notified
    /\ ~eot[1].m
    /\ eot[1].q # <<>>
    /\ eot[1].h # <<>>
    /\ audioQueue = eot[1].q
    /\ currentlyPlaying = eot[1].c

\* C15 (SpecSeq): PlayDirect, Enqueue or LegacyPlay of a source that does
\* not exist changes nothing: Queue, History, CurrentTrack, PlaybackMode
\* and the decoder stay as they were.
C15_MissingSourceSkipped ==
    (pc[Lst] = "ret" /\ handler \in {"PlayDirect", "Enqueue", "LegacyPlay"} /\ filePath \notin fs)
        => Snap = pre[1]

\* C16 (SpecSeq): at the end of a track, with PlaybackMode true and the
\* Queue non-empty the controller does what Next does; otherwise it clears
\* PlaybackMode, leaves Queue, History and CurrentTrack alone and loads
\* nothing.
C16_EndOfTrack ==
    Notified
        => LET s == eot[1]
           IN  IF s.m /\ s.q # <<>>
               THEN /\ audioQueue = Tail(s.q)
                    /\ currentlyPlaying = Head(s.q)
                    /\ playHistory = Pushed(s.c, s.h)
                    /\ Loads(Head(s.q))
                    /\ playingFromQueue
               ELSE /\ ~playingFromQueue
                    /\ audioQueue = s.q
                    /\ playHistory = s.h
                    /\ currentlyPlaying = s.c
                    /\ decoder = s.d

C16_Witness ==
    /\ Notified
    /\ eot[1].m
    /\ Len(eot[1].q) = 2
    /\ eot[1].c # EmptyStr
    /\ currentlyPlaying = Head(eot[1].q)
    /\ Head(playHistory) = eot[1].c

\* C17 (SpecSeq): whenever no handler, render callback or end-of-track
\* notification is running, CurrentTrack is set exactly when the player
\* holds a decoder.
C17_CurrentIffDecoder ==
    AtRest => (currentlyPlaying # EmptyStr <=> decoder # NoDecoder)

\* The listener is past a handler's first statement, and the audio thread
\* past the first statement of onPlaybackEnd.
ListenerMidHandler ==
    pc[Lst] \notin {"loop", "callback", "ret", "stopped", "exited",
                    "stop_player", "next_check", "prev_check", "quit_stop",
                    "play_exists", "q_exists", "leg_exists"}
AudioMidNotification ==
    pc[Aud] \in {"pnfq_check", "pnfq_front", "pnfq_pop", "pnfq_exists", "pnfq_hist",
                 "pnfq_setcur", "pnfq_play", "pnfq_mode"}

\* C18 (Spec): the command handlers and the end-of-track handler run under
\* one lock: never is one of them part-way through while the other is.
C18_TransitionsSerialized ==
    ~(ListenerMidHandler /\ AudioMidNotification)

(***************************************************************************)
(* SpecLive: Spec with the scheduling the threads get.  The device calls   *)
(* dataCallback once per period and leaves Player::mutex free in between,  *)
(* so a listener step that needs the mutex gets it (strong fairness); a    *)
(* thread that can run does run (weak fairness).                           *)
(***************************************************************************)
ListenerLockSteps ==
    \/ stop_player
    \/ quit_stop
    \/ quit_player
    \/ play_play
    \/ prev_play
    \/ leg_play
    \/ pnfq_play(Lst)

Fairness ==
    /\ SF_vars(ListenerLockSteps)
    /\ WF_vars(dc_render \/ dc_finish)
    /\ WF_vars(cb_check \/ playNextFromQueue(Aud))
    /\ WF_vars(cb_relock)

SpecLive == Init /\ [][Next]_vars /\ Fairness

ListenerWaitsForLock ==
    pc[Lst] \in {"stop_player", "quit_stop", "quit_player", "play_play",
                 "prev_play", "leg_play", "pnfq_play"}
AudioWaitsForLock == pc[Aud] \in {"cb_relock", "pnfq_play"}

MixInputs ==
    {[stage |-> "read", decoderChannels |-> d, outputChannels |-> o,
      tempBuffer |-> t, outputBuffer |-> <<>>] :
        d \in 1..MaxDecCh, o \in 1..MaxOutCh, t \in UNION {[0..(c - 1) -> Samples] : c \in 1..MaxDecCh}}

InitMix ==
    /\ InitCommon
    /\ pc = [t \in Threads |-> IF t = Lst THEN "loop" ELSE "dc_render"]
    /\ msg = EmptyStr
    /\ scenario = "mix"
    /\ fs = BaseFs
    /\ render = NoRender
    /\ sup = NoSup
    /\ mix \in {m \in MixInputs : DOMAIN m.tempBuffer = 0..(m.decoderChannels - 1)}

\* std::memset(out, 0, ...)
mix_clear ==
    /\ mix.stage = "read"
    /\ mix' = [mix EXCEPT !.stage = "cleared",
                          !.outputBuffer = [channel \in 0..(mix.outputChannels - 1) |-> 0]]
    /\ UNCHANGED <<ctrl, eng, pc, locals, fs, render, sup, ghost>>

\* for (frame = 0; frame < framesRead; frame++) { ... }
mix_frame ==
    /\ mix.stage = "cleared"
    /\ mix' = [mix EXCEPT !.stage = "mixed",
                          !.outputBuffer = MixFrame(mix.decoderChannels, mix.outputChannels,
                                                    mix.tempBuffer, mix.outputBuffer)]
    /\ UNCHANGED <<ctrl, eng, pc, locals, fs, render, sup, ghost>>

NextMix == mix_clear \/ mix_frame

SpecMix == InitMix /\ [][NextMix]_vars

C21_Downmix ==
    (mix.stage = "mixed"
        /\ mix.decoderChannels # mix.outputChannels
        /\ mix.decoderChannels # 1
        /\ ~(mix.decoderChannels = 2 /\ mix.outputChannels >= 2))
        => /\ DOMAIN mix.outputBuffer = 0..(mix.outputChannels - 1)
           /\ \A ch \in 0..(mix.outputChannels - 1) :
                 mix.outputBuffer[ch] * mix.decoderChannels
                     = 10 * SumTo(mix.tempBuffer, mix.decoderChannels)
           /\ (mix.decoderChannels = 2 /\ mix.outputChannels = 1)
                 => 2 * mix.outputBuffer[0] = 10 * (mix.tempBuffer[0] + mix.tempBuffer[1])

C21_Witness ==
    /\ mix.stage = "mixed"
    /\ mix.decoderChannels = 2
    /\ mix.outputChannels = 1
    /\ mix.tempBuffer[0] = 840
    /\ mix.tempBuffer[1] = 0
    /\ mix.outputBuffer[0] = 4200

\* C22 (SpecMix): when the decoder and the device have the same number of
\* channels, output channel i of the frame is decoder channel i of the
\* frame, for every channel count.
C22_SameCountPassthrough ==
    (mix.stage = "mixed" /\ mix.decoderChannels = mix.outputChannels)
        => \A ch \in 0..(mix.outputChannels - 1) :
               mix.outputBuffer[ch] = 10 * mix.tempBuffer[ch]

(***************************************************************************)
(* SpecRender: Audio::Player on its own, driven through its public         *)
(* interface, with the content of the device's output buffer.  A frame of  *)
(* the buffer is the track it was decoded from and the gain it carries, in *)
(* percent; the end-of-playback callback does what WinMain's lambda can    *)
(* do to the player: nothing, or Player::play of a next track.             *)
(***************************************************************************)
Silence == [src |-> EmptyStr, gain |-> 0]
Silences(n) == [i \in 1..n |-> Silence]
\* A frame of the device's buffer that dataCallback has not stored to.
Unwritten == [src |-> <<"unwritten">>, gain |-> 0]
Unwrittens(n) == [i \in 1..n |-> Unwritten]
Decoded(path, n) == [i \in 1..n |-> [src |-> path, gain |-> FullGain]]
Scale(frame, v) == [frame EXCEPT !.gain = (@ * v) \div FullGain]

VolumeArgs == {50, 100, 150}
clamp(v, lo, hi) == IF v < lo THEN lo ELSE IF v > hi THEN hi ELSE v

RenderSources == {FileA, FileB, NoFile, DirD, DirE}

\* The player after its constructor, on a device of `channels` channels;
\* loadFromFile has every decoder produce the device's channel count.
InitPlayer(channels) ==
    /\ InitCommon
    /\ pc = [t \in Threads |-> IF t = Lst THEN "loop" ELSE "idle"]
    /\ msg = EmptyStr
    /\ fs = BaseFs
    /\ mix = NoMix
    /\ sup = NoSup
    /\ render = [stage |-> "idle", volume |-> FullGain, hasCallback |-> FALSE,
                 playlist |-> <<>>, playlistIndex |-> 0, channels |-> channels,
                 frameCount |-> 0, frames |-> 0, framesRead |-> 0, out |-> <<>>,
                 handledByCallback |-> FALSE,
                 notes |-> 0, eosAt |-> -1, loadedBy |-> "none"]

\* SpecRender's device is mono, where every request of up to
\* TempBufferSamples frames fits tempBuffer.
InitRender == InitPlayer(1) /\ scenario = "render"

BetweenCallbacks == render.stage \in {"idle", "done"}

\* Player::setVolume(v)
Player_setVolume(v) ==
    /\ BetweenCallbacks
    /\ mutex = "free"
    /\ render' = [render EXCEPT !.stage = "idle", !.volume = clamp(v, 0, FullGain)]
    /\ UNCHANGED <<ctrl, eng, pc, locals, fs, mix, sup, ghost>>

\* Player::setOnPlaybackEnd(callback)
Player_setOnPlaybackEnd ==
    /\ BetweenCallbacks
    /\ mutex = "free"
    /\ ~render.hasCallback
    /\ render' = [render EXCEPT !.stage = "idle", !.hasCallback = TRUE]
    /\ UNCHANGED <<ctrl, eng, pc, locals, fs, mix, sup, ghost>>

\* Player::play(path) with its playlist: the shuffled audio files of a
\* directory, or nothing for a single file.
PlayPath(path, stage, by) ==
    /\ Player_play(path)
    /\ \E pl \in (IF is_directory(path)
                  THEN Perms({p \in Entries(path) : is_regular_file(p) /\ isAudioFile(p)})
                  ELSE {<<>>}) :
          /\ pl # <<>> => decoder' = loadFromFile(pl[1])
          /\ render' = [render EXCEPT !.stage = stage, !.playlist = pl, !.playlistIndex = 0,
                                      !.notes = 0, !.loadedBy = by]
    /\ UNCHANGED <<ctrl, pc, locals, fs, mix, sup, ghost>>

Player_playPath(path) == BetweenCallbacks /\ PlayPath(path, "idle", "none")

\* dataCallback is entered with a request for n frames and takes the mutex.
rc_lock(n) ==
    /\ BetweenCallbacks
    /\ deviceUp
    /\ mutex = "free"
    /\ mutex' = Aud
    /\ render' = [render EXCEPT !.stage = "read", !.frameCount = n, !.frames = n,
                                !.framesRead = 0,
                                !.out = Unwrittens(n), !.handledByCallback = FALSE,
                                !.eosAt = -1, !.loadedBy = "none"]
    /\ UNCHANGED <<ctrl, decoder, paused, deviceUp, pc, locals, fs, mix, sup, ghost>>

\* Silence without a decoder or when paused; otherwise the buffer is
\* cleared, framesRead frames are decoded and mapped, and the volume is
\* applied to them.  On a short read the callback is called with the mutex
\* released, if there is one.
rc_read ==
    /\ render.stage = "read"
    /\ IF decoder = NoDecoder \/ paused
       THEN /\ render' = [render EXCEPT !.stage = "done", !.out = Silences(render.frames)]
            /\ mutex' = "free"
            /\ UNCHANGED decoder
       ELSE LET decoderChannels == render.channels
                frames == IF render.frames * decoderChannels > TempBufferSamples
                          THEN TempBufferSamples \div decoderChannels
                          ELSE render.frames
                framesRead == Min(frames, decoder[1].left)
                mapped == Decoded(decoder[1].path, framesRead)
                scaled == IF render.volume # FullGain
                          THEN [i \in 1..framesRead |-> Scale(mapped[i], render.volume)]
                          ELSE mapped
                short == framesRead < frames
            IN  /\ decoder' = <<[decoder[1] EXCEPT !.left = @ - framesRead]>>
                /\ render' = [render EXCEPT
                       !.frames = frames,
                       !.framesRead = framesRead,
                       !.out = scaled \o Silences(frames - framesRead)
                                  \o Unwrittens(render.frameCount - frames),
                       !.eosAt = IF short THEN framesRead ELSE -1,
                       !.notes = IF short /\ render.hasCallback THEN Min(@ + 1, 2) ELSE @,
                       !.stage = IF ~short THEN "finish"
                                 ELSE IF render.hasCallback THEN "callback" ELSE "playlist"]
                /\ mutex' = IF short /\ render.hasCallback THEN "free" ELSE mutex
    /\ UNCHANGED <<ctrl, paused, deviceUp, pc, locals, fs, mix, sup, ghost>>

\* callback(): the controller's onPlaybackEnd leaves the player alone or
\* has playNextFromQueue call player.play(nextTrack).
rc_callback ==
    /\ render.stage = "callback"
    /\ \/ /\ render' = [render EXCEPT !.stage = "relock"]
          /\ UNCHANGED <<ctrl, eng, pc, locals, fs, mix, sup, ghost>>
       \/ \E path \in RenderSources : PlayPath(path, "relock", "callback")

\* self->mutex.lock(); handledByCallback = true;
rc_relock ==
    /\ render.stage = "relock"
    /\ mutex = "free"
    /\ mutex' = Aud
    /\ render' = [render EXCEPT !.stage = "playlist", !.handledByCallback = TRUE]
    /\ UNCHANGED <<ctrl, decoder, paused, deviceUp, pc, locals, fs, mix, sup, ghost>>

\* The built-in playlist: without a callback and with more than one entry,
\* the next existing entry is loaded and its first frames are mapped into
\* the remainder of the buffer.
rc_playlist ==
    /\ render.stage = "playlist"
    /\ IF ~render.handledByCallback /\ Len(render.playlist) > 1
       THEN LET size == Len(render.playlist)
                first == (render.playlistIndex + 1) % size
                tries == {i \in 0..size : exists(render.playlist[((first + i) % size) + 1])}
            IN  IF tries = {}
                THEN /\ decoder' = NoDecoder
                     /\ mutex' = "free"
                     /\ render' = [render EXCEPT !.stage = "done",
                                                 !.playlistIndex = (first + size) % size,
                                                 !.out = Silences(render.frames) \o
                                                     Unwrittens(render.frameCount - render.frames)]
                ELSE LET index == (first + CHOOSE i \in tries : \A j \in tries : i <= j) % size
                         currentPath == render.playlist[index + 1]
                         next == IF Decodable(currentPath)
                                 THEN <<[path |-> currentPath, left |-> TrackFrames]>>
                                 ELSE NoDecoder
                         additionalFramesRead ==
                             IF next = NoDecoder THEN 0
                             ELSE Min(render.frames - render.framesRead, next[1].left)
                         spliced == Decoded(currentPath, additionalFramesRead)
                     IN  /\ decoder' = IF next = NoDecoder THEN NoDecoder
                                       ELSE <<[next[1] EXCEPT !.left = @ - additionalFramesRead]>>
                         /\ UNCHANGED mutex
                         /\ render' = [render EXCEPT
                                !.stage = "finish",
                                !.playlistIndex = index,
                                !.notes = 0,
                                !.loadedBy = "playlist",
                                !.framesRead = @ + additionalFramesRead,
                                !.out = [i \in 1..render.frameCount |->
                                            IF /\ i > render.framesRead
                                               /\ i <= render.framesRead + additionalFramesRead
                                            THEN spliced[i - render.framesRead]
                                            ELSE render.out[i]]]
       ELSE /\ render' = [render EXCEPT !.stage = "finish"]
            /\ UNCHANGED <<decoder, mutex>>
    /\ UNCHANGED <<ctrl, paused, deviceUp, pc, locals, fs, mix, sup, ghost>>

\* Fill remainder with silence if needed; the scoped_lock is released.
rc_finish ==
    /\ render.stage = "finish"
    /\ mutex' = "free"
    /\ render' = [render EXCEPT
           !.stage = "done",
           !.out = [i \in 1..render.frameCount |->
                       IF i > render.framesRead /\ i <= render.frames
                       THEN Silence ELSE render.out[i]]]
    /\ UNCHANGED <<ctrl, decoder, paused, deviceUp, pc, locals, fs, mix, sup, ghost>>

NextRender ==
    \/ \E v \in VolumeArgs : Player_setVolume(v)
    \/ Player_setOnPlaybackEnd
    \/ \E path \in RenderSources : Player_playPath(path)
    \/ \E n \in 1..MaxFrameCount : rc_lock(n)
    \/ rc_read
    \/ rc_callback
    \/ rc_relock
    \/ rc_playlist
    \/ rc_finish

SpecRender == InitRender /\ [][NextRender]_vars

\* SpecClamp: the same player on a device of one to MaxDevCh channels, so
\* that a request can exceed what tempBuffer holds.
InitClamp == \E channels \in 1..MaxDevCh : InitPlayer(channels) /\ scenario = "clamp"

SpecClamp == InitClamp /\ [][NextRender]_vars

\* The render call that just returned hit end-of-stream and the callback
\* loaded a track that opened.
CallbackLoadedNext ==
    /\ render.stage = "done"
    /\ render.eosAt >= 0
    /\ render.loadedBy = "callback"
    /\ decoder # NoDecoder

\* C23 (SpecRender): when a render call hits end-of-stream after f frames
\* and the end-of-track callback loads a next track, the frames from f on
\* in that buffer are the first frames of the new track, as far as it has
\* frames, and not silence.
C23_SpliceAfterCallback ==
    CallbackLoadedNext
        => \A i \in (render.eosAt + 1)..render.frames :
               i <= render.eosAt + TrackFrames => render.out[i].src = decoder[1].path

\* C24 (SpecRender): after a render call that hit end-of-stream with no
\* replacement loaded, the player has no decoder, and the track's end has
\* been notified at most once.
C24_IdleAfterEndOfStream ==
    (render.stage = "done" /\ render.eosAt >= 0 /\ render.loadedBy = "none")
        => /\ decoder = NoDecoder
           /\ render.notes <= 1

(***************************************************************************)
(* SpecSkip: SpecSeq in a filesystem where files can be removed between    *)
(* transitions, so that the Queue can name sources that no longer exist.   *)
(***************************************************************************)
Removable == {FileA, FileB, D1, D2}

Unlink ==
    /\ AtRest
    /\ Cardinality(BaseFs \ fs) < MaxUnlinks
    /\ \E p \in Removable \cap fs : fs' = fs \ {p}
    /\ UNCHANGED <<ctrl, eng, pc, locals, mix, render, sup, ghost>>

NextSkip == NextSeq \/ Unlink

SpecSkip == Init /\ [][NextSkip]_vars

\* The entries of q from the first one that exists on.
RECURSIVE FromFirstExisting(_)
FromFirstExisting(q) ==
    IF q = <<>> \/ exists(Head(q)) THEN q ELSE FromFirstExisting(Tail(q))

IsSuffix(s, q) == \E n \in 0..Len(q) : s = SubSeq(q, n + 1, Len(q))

PnfqLabels == {"pnfq_check", "pnfq_front", "pnfq_pop", "pnfq_exists",
               "pnfq_hist", "pnfq_setcur", "pnfq_play", "pnfq_mode"}

\* The controller state after a queue advance from state s.
Advanced(s) ==
    LET rest == FromFirstExisting(s.q)
    IN  IF rest # <<>>
        THEN /\ audioQueue = Tail(rest)
             /\ currentlyPlaying = Head(rest)
             /\ playHistory = Pushed(s.c, s.h)
             /\ playingFromQueue
        ELSE /\ audioQueue = <<>>
             /\ ~playingFromQueue
             /\ currentlyPlaying = s.c
             /\ playHistory = s.h

\* C25 (SpecSkip): a queue advance by Next or at the end of a track drops
\* Queue entries from the front up to the first one that exists, which
\* becomes CurrentTrack with the old one pushed to History and
\* PlaybackMode true; the dropped entries do not enter History; if no entry
\* exists the Queue ends empty with PlaybackMode false and CurrentTrack and
\* History as they were.  While it runs the Queue is a suffix of the
\* initial Queue, so it removes no more entries than the Queue had.
C25_AdvanceSkipsMissing ==
    /\ (Returned("Next") /\ pre[1].q # <<>>) => Advanced(pre[1])
    /\ (Notified /\ eot[1].m /\ eot[1].q # <<>>) => Advanced(eot[1])
    /\ (handler = "Next" /\ pc[Lst] \in PnfqLabels) => IsSuffix(audioQueue, pre[1].q)
    /\ (eot # <<>> /\ pc[Aud] \in PnfqLabels) => IsSuffix(audioQueue, eot[1].q)

C25_Witness ==
    /\ Returned("Next")
    /\ Len(pre[1].q) = 2
    /\ ~exists(pre[1].q[1])
    /\ currentlyPlaying = pre[1].q[2]
    /\ pre[1].c # EmptyStr
    /\ Head(playHistory) = pre[1].c
    /\ pre[1].q[1] \notin {playHistory[i] : i \in 1..Len(playHistory)}
    /\ audioQueue = <<>>

\* C26 (SpecRender): every frame of a returned buffer that is not silence
\* carries the current volume exactly once, the frames of a newly loaded
\* track mapped into the remainder of the buffer included.
C26_VolumeOnce ==
    render.stage = "done"
        => \A i \in 1..render.frames :
               render.out[i] # Silence => render.out[i].gain = render.volume

\* C27 (SpecNet): a recvfrom that fails with the interrupted-wait code puts
\* the listener back at recvfrom, from where later datagrams are
\* dispatched; a recvfrom that fails with any other code stops the listener
\* for good: it takes nothing from the socket afterwards and no payload
\* reaches a handler.
C27_ReceiveErrors ==
    /\ []((rcvLen = -1 /\ errno = "EINTR") => pc[Lst] = "loop")
    /\ [](errno = "OTHER" <=> pc[Lst] = "stopped")
    /\ [][pc[Lst] = "stopped"
            => /\ pc'[Lst] = "stopped"
               /\ UNCHANGED <<msg, handler, ncmds, rcvLen, errno>>]_vars

C27_Witness ==
    /\ errno = "EINTR"
    /\ rcvLen > 0
    /\ Returned("Enqueue")
    /\ audioQueue # <<>>

\* The tracks held by the controller in state s, and how often a sequence
\* holds a track.
Tracks(s) == s.q \o s.h \o (IF s.c # EmptyStr THEN <<s.c>> ELSE <<>>)
Count(t, seq) == Cardinality({i \in 1..Len(seq) : seq[i] = t})
SameTracks(a, b) ==
    \A t \in {a[i] : i \in 1..Len(a)} \cup {b[i] : i \in 1..Len(b)} : Count(t, a) = Count(t, b)

\* What a queue advance from state s drops: the missing entries in front
\* of the first existing one, and the oldest entry of a full History.
Skipped(s) == SubSeq(s.q, 1, Len(s.q) - Len(FromFirstExisting(s.q)))
Evicted(s) ==
    IF FromFirstExisting(s.q) # <<>> /\ s.c # EmptyStr /\ Len(s.h) = MAX_HISTORY
    THEN <<s.h[MAX_HISTORY]>>
    ELSE <<>>

\* C28 (SpecSkip): Next, Prev and the end of a track only move tracks: the
\* tracks in Queue, History and CurrentTrack together are the same multiset
\* before and after, apart from the entry evicted from a full History and
\* the Queue entries skipped because their file is missing.
C28_TracksOnlyMove ==
    /\ Returned("Prev") => SameTracks(Tracks(Snap), Tracks(pre[1]))
    /\ Returned("Next")
        => SameTracks(Tracks(Snap) \o Skipped(pre[1]) \o Evicted(pre[1]), Tracks(pre[1]))
    /\ Notified
        => IF eot[1].m /\ eot[1].q # <<>>
           THEN SameTracks(Tracks(Snap) \o Skipped(eot[1]) \o Evicted(eot[1]), Tracks(eot[1]))
           ELSE SameTracks(Tracks(Snap), Tracks(eot[1]))

C28_Witness ==
    /\ Notified
    /\ eot[1].m
    /\ Len(eot[1].q) = 2
    /\ ~exists(eot[1].q[1])
    /\ eot[1].c # EmptyStr
    /\ currentlyPlaying = eot[1].q[2]
    /\ Head(playHistory) = eot[1].c

\* A command that loads a track has returned after dataCallback saw the end
\* of the old track, and the player holds a decoder loaded since then,
\* while onPlaybackEnd is about to run.
LoadedInWindow ==
    /\ pc[Aud] = "cb_check"
    /\ pc[Lst] = "ret"
    /\ handler \in {"PlayDirect", "Prev", "Next", "LegacyPlay"}
    /\ decoder # NoDecoder
    /\ decoder # eot[1].d

\* C29 (Spec): when a command has loaded a new track between dataCallback
\* seeing the end of the old track and onPlaybackEnd running, onPlaybackEnd
\* takes nothing from the Queue and leaves PlaybackMode as the command set
\* it.
C29_StaleNotificationIgnored ==
    [][(LoadedInWindow /\ pc'[Aud] # "cb_check")
          => /\ pc'[Aud] = "cb_relock"
             /\ playingFromQueue' = playingFromQueue]_vars

(***************************************************************************)
(* SpecSeqLive: SpecSeq where a handler that has started runs on, the      *)
(* device keeps calling dataCallback and dataCallback runs to its end.     *)
(* Nothing obliges a client to send a command.                             *)
(***************************************************************************)
FairnessSeq ==
    /\ WF_vars(Handlers)
    /\ WF_vars(pc[Lst] = "loop" /\ dc_lock)
    /\ WF_vars(dataCallback)

SpecSeqLive == Init /\ [][NextSeq]_vars /\ FairnessSeq

\* No handler runs and no further payload will be dispatched.
NoMoreCommands == pc[Lst] = "loop" /\ ncmds = MaxCmds

\* C30 (SpecSeqLive): once no further command arrives, if PlaybackMode is
\* true and the Queue's front is a file that exists and can be decoded,
\* that track eventually becomes CurrentTrack, from every reachable state.
C30_QueueFrontEventuallyPlays ==
    \A t \in Sources :
        (/\ NoMoreCommands
         /\ playingFromQueue
         /\ audioQueue # <<>>
         /\ Head(audioQueue) = t
         /\ exists(t) /\ ~is_directory(t) /\ Decodable(t))
            ~> (currentlyPlaying = t)

\* C31 (Spec): under every interleaving of a command with the end-of-track
\* notification, playNextFromQueue reads and pops the Queue's front only
\* while the Queue is non-empty.
C31_FrontOnlyWhenNonEmpty ==
    \A t \in Threads : pc[t] \in {"pnfq_front", "pnfq_pop"} => audioQueue # <<>>

\* C32 (SpecSeq): with commands and end-of-track notifications applied one
\* at a time, a non-empty History implies a non-empty CurrentTrack in every
\* state, so Prev has a current track to put at the Queue's front.
C32_HistoryImpliesCurrent ==
    /\ playHistory # <<>> => currentlyPlaying # EmptyStr
    /\ pc[Lst] = "prev_requeue" => currentlyPlaying # EmptyStr
    /\ (Returned("Prev") /\ pre[1].h # <<>>) => Head(audioQueue) = pre[1].c

C32_Witness ==
    /\ pc[Lst] = "quit_clearc"
    /\ pre[1].h # <<>>
    /\ playHistory = <<>>
    /\ currentlyPlaying # EmptyStr

\* C33 (SpecSeq): PlayDirect of an existing directory without any
\* recognized audio file leaves CurrentTrack, History, PlaybackMode and the
\* decoding session as they were and empties the Queue.
C33_PlayDirectEmptyDirectory ==
    (Returned("PlayDirect") /\ is_directory(filePath) /\ collectAudioFiles(filePath) = {})
        => /\ audioQueue = <<>>
           /\ [Snap EXCEPT !.q = pre[1].q] = pre[1]

C33_Witness ==
    /\ Returned("PlayDirect")
    /\ filePath = DirE
    /\ Len(pre[1].q) = 2
    /\ pre[1].c # EmptyStr
    /\ pre[1].d # NoDecoder
    /\ audioQueue = <<>>

(***************************************************************************)
(* SpecShutdown: the daemon with WinMain's own thread.  The listener is at *)
(* "loop" when it is about to test Receiver::running and at "recvfrom"     *)
(* when it waits in recvfrom; clients may send payloads or not.            *)
(***************************************************************************)
ShutdownPayloads == {EmptyStr, CmdNext, FileA, QueuePrefix \o FileB}

InitShutdown ==
    /\ InitCommon
    /\ mix = NoMix
    /\ render = NoRender
    /\ sup = [pc |-> "loop", running |-> TRUE, rcvRunning |-> TRUE]
    /\ pc = [t \in Threads |-> IF t = Lst THEN "loop" ELSE "idle"]
    /\ msg = EmptyStr
    /\ scenario = "shutdown"
    /\ fs = BaseFs

\* signalHandler: running = false
signalHandler ==
    /\ sup.running
    /\ sup' = [sup EXCEPT !.running = FALSE]
    /\ UNCHANGED <<ctrl, eng, pc, locals, fs, mix, render, ghost>>

\* while (running) sleep_for(100ms);
main_loop ==
    /\ sup.pc = "loop"
    /\ ~sup.running
    /\ sup' = [sup EXCEPT !.pc = "stop"]
    /\ UNCHANGED <<ctrl, eng, pc, locals, fs, mix, render, ghost>>

\* player.stop(); return 0;
main_stop ==
    /\ sup.pc = "stop"
    /\ Player_stop
    /\ sup' = [sup EXCEPT !.pc = "dtor"]
    /\ UNCHANGED <<ctrl, pc, locals, fs, mix, render, ghost>>

\* ~Receiver(): running = false;
Receiver_dtor ==
    /\ sup.pc = "dtor"
    /\ sup' = [sup EXCEPT !.pc = "join", !.rcvRunning = FALSE]
    /\ UNCHANGED <<ctrl, eng, pc, locals, fs, mix, render, ghost>>

\* if (listener.joinable()) listener.join(); closeSocket();
Receiver_join ==
    /\ sup.pc = "join"
    /\ pc[Lst] = "stopped"
    /\ sup' = [sup EXCEPT !.pc = "player_dtor"]
    /\ UNCHANGED <<ctrl, eng, pc, locals, fs, mix, render, ghost>>

\* ~Player(): stop(); ma_device_uninit(&device); and WinMain has returned
Player_dtor ==
    /\ sup.pc = "player_dtor"
    /\ mutex = "free"
    /\ stop_nolock
    /\ deviceUp' = FALSE
    /\ sup' = [sup EXCEPT !.pc = "returned"]
    /\ UNCHANGED <<ctrl, mutex, pc, locals, fs, mix, render, ghost>>

\* while (running) { ... recvfrom(...) blocks
loop_while ==
    /\ pc[Lst] = "loop"
    /\ Goto(Lst, IF sup.rcvRunning THEN "recvfrom" ELSE "stopped")
    /\ UNCHANGED <<ctrl, eng, locals, fs, mix, render, sup, ghost>>

\* recvfrom returns a datagram with payload m and the callback is called
recv_datagram(m) ==
    /\ pc[Lst] = "recvfrom"
    /\ pc[Aud] = "idle"
    /\ ncmds < MaxShutdownCmds
    /\ msg' = m
    /\ ncmds' = ncmds + 1
    /\ Goto(Lst, "callback")
    /\ UNCHANGED <<ctrl, eng, nextTrack, filePath, dirFiles, prevTrack, rcvLen, errno,
                   fs, mix, render, sup,
                   scenario, eot, handler, pre, mark, played, enqueued, prevUsed>>

WinMain ==
    \/ main_loop
    \/ main_stop
    \/ Receiver_dtor
    \/ Receiver_join
    \/ Player_dtor

\* The handlers the payloads of SpecShutdown reach.
ShutdownHandlers ==
    \/ ReceiverCallback
    \/ handleStopCommand
    \/ handleNextCommand
    \/ handleQueueCommand
    \/ handleLegacyCommand
    \/ playNextFromQueue(Lst)
    \/ ListenerReturn

NextShutdown ==
    \/ signalHandler
    \/ WinMain
    \/ loop_while
    \/ \E m \in ShutdownPayloads : recv_datagram(m)
    \/ ShutdownHandlers
    \/ pc[Lst] \in {"loop", "recvfrom", "stopped"} /\ dc_lock
    \/ dataCallback

\* WinMain's thread gets the player's mutex when it asks for it again and
\* again (strong fairness); nothing obliges a client to send a payload or
\* the operator to send a signal.
FairnessShutdown ==
    /\ SF_vars(WinMain)
    /\ WF_vars(loop_while)
    /\ SF_vars(ShutdownHandlers)
    /\ WF_vars(pc[Lst] \in {"loop", "recvfrom", "stopped"} /\ dc_lock)
    /\ WF_vars(dataCallback)

SpecShutdown == InitShutdown /\ [][NextShutdown]_vars /\ FairnessShutdown

\* C34 (SpecShutdown): once a signal has cleared the running flag, WinMain
\* eventually returns: its loop ends, the listener thread is joined and the
\* process is over, whether or not another datagram arrives.
C34_ShutdownTerminates ==
    (~sup.running) ~> (sup.pc = "returned")


\* C35 (SpecClamp): when a render call has returned, every one of the
\* frameCount frames the device asked for has been written, with decoded
\* audio or with silence, for every frameCount and channel count; none is
\* left unwritten when frameCount * channels exceeds tempBuffer and the
\* frame count is clamped.
C35_AllFramesWritten ==
    render.stage = "done"
        => /\ Len(render.out) = render.frameCount
           /\ \A i \in 1..render.frameCount : render.out[i] # Unwritten

====
